---- MODULE Spec2Model ----
(***************************************************************************)
(* Crypto Cascade (src/unnamed/part_000): the match-3 cascade engine of    *)
(* the CryptoCascade React component, as a state machine.                  *)
(*                                                                         *)
(* The component state is the record cascadeState (useState, l.52-62).     *)
(* Every event handler and every timer callback runs to completion on the  *)
(* single JavaScript thread, and React re-renders after each of them, so   *)
(* a handler's closure sees the state the previous handler left: each      *)
(* handler / timer callback is one atomic action.                          *)
(*                                                                         *)
(* A cascade resolution sequence (processCascadingMatches) is an async     *)
(* function: it is started by a 100ms timer and sleeps 300ms after every   *)
(* successful step, so its local variables live across other handlers.     *)
(* The sequences in flight are kept in `tasks`.                            *)
(*                                                                         *)
(* Presentation-only token fields (id, isMatched, isFalling) and the       *)
(* sound effects are never read by the logic and are left out.             *)
(***************************************************************************)
EXTENDS Integers, Sequences, FiniteSets, TLC

(* ------------------------------------------------------------------ *)
(* Bounds (the program's values are 8, 6 kinds, 20 moves, 1000 points) *)
(* ------------------------------------------------------------------ *)
GRID_SIZE == 4
NumTypes == 2
INITIAL_MOVES == 2
INITIAL_TARGET == 110
MaxCombo == 2
MaxLevel == 2
MaxInFlight == 2
ClickSpan == 2
ProbeTapeLen == 3
ResolveTapeLen == 5

(* Program constants *)
ScorePerToken == 10

AllTokenTypes == <<"ETH", "BTC", "USDC", "MATIC", "BASE", "WETH">>
TOKEN_TYPES == SubSeq(AllTokenTypes, 1, NumTypes)

Rows == 0 .. (GRID_SIZE - 1)
Cells == Rows \X Rows

(* A missing token (null). *)
NULL == [type |-> "null", row |-> -1, col |-> -1]

(* Token(type, row, col): the logic-relevant fields of interface Token. *)
Token(type, row, col) == [type |-> type, row |-> row, col |-> col]

(* The initial `grid: []` of the component state. *)
EmptyGrid == << >>

(* grid[row][col] and grid[row][col] = token, for 0-based row and col: a grid
   is a sequence of rows, each a sequence of slots. *)
At(grid, row, col) == grid[row + 1][col + 1]
Put(grid, row, col, token) == [grid EXCEPT ![row + 1][col + 1] = token]

(* ------------------------------------------------------------------ *)
(* Math.random(): the draws of one call are read off a periodic tape   *)
(* of kind indexes; which tape is used is chosen nondeterministically. *)
(* ------------------------------------------------------------------ *)
ConstTape(t) == << t >>
RampTape == [i \in 1 .. (NumTypes + 1) |-> IF i = 1 THEN 1 ELSE i - 1]
Tapes == {ConstTape(NumTypes), RampTape}

(* The k-th draw (k = 0, 1, ...) of TOKEN_TYPES[floor(random * length)]. *)
RandomType(tape, k) == TOKEN_TYPES[tape[(k % Len(tape)) + 1]]

(* createInitialGrid: row-major, one draw per slot. *)
createInitialGrid(tape) ==
  [r \in 1 .. GRID_SIZE |->
     [c \in 1 .. GRID_SIZE |->
        Token(RandomType(tape, (r - 1) * GRID_SIZE + (c - 1)), r - 1, c - 1)]]

(* ------------------------------------------------------------------ *)
(* findMatches                                                         *)
(* ------------------------------------------------------------------ *)
Range(seq) == {seq[i] : i \in 1 .. Len(seq)}

(* l.168, l.183: three tokens present and of one type. *)
SameTriple(t1, t2, t3) ==
  /\ t1 # NULL /\ t2 # NULL /\ t3 # NULL
  /\ t1.type = t2.type /\ t2.type = t3.type

(* The triples each scan visits: GRID_SIZE lines of GRID_SIZE - 2 starts. *)
TriplesPerScan == GRID_SIZE * (GRID_SIZE - 2)

(* Variant: the horizontal scan finds nothing. *)
HorizontalHitNever(grid, n) == FALSE

(* l.162-168: the test of horizontal triple n; rows outermost, so triple n
   starts at row n \div (GRID_SIZE - 2), col n % (GRID_SIZE - 2). *)
HorizontalHit(grid, n) ==
  LET row == n \div (GRID_SIZE - 2)
      col == n % (GRID_SIZE - 2)
  IN  SameTriple(At(grid, row, col), At(grid, row, col + 1), At(grid, row, col + 2))

(* l.177-183: the test of vertical triple n; columns outermost. *)
VerticalHit(grid, n) ==
  LET col == n \div (GRID_SIZE - 2)
      row == n % (GRID_SIZE - 2)
  IN  SameTriple(At(grid, row, col), At(grid, row + 1, col), At(grid, row + 2, col))

(* l.169-171: the k-th key (k = 0, 1, 2) horizontal triple n adds.  The key
   `${row}-${col}` names the cell one-to-one (l.192 parses it back), so
   <<row, col>> stands for it. *)
HorizontalKey(n, k) == <<n \div (GRID_SIZE - 2), (n % (GRID_SIZE - 2)) + k>>

(* l.184-186 *)
VerticalKey(n, k) == <<(n % (GRID_SIZE - 2)) + k, n \div (GRID_SIZE - 2)>>

(* The one element of a singleton.  { F(v) : v \in {e} } evaluates e once and
   hands F its value, as a `const` of the code holds a value once computed. *)
Only(S) == CHOOSE x \in S : TRUE

(* Every matched.add(key) call of one findMatches run, in program order: the
   three keys of each horizontal triple that passes its test, then the three
   keys of each vertical triple that passes. *)
Adds(grid) ==
  LET HHit(n) == HorizontalHit(grid, n)
      VHit(n) == VerticalHit(grid, n)
      triples == [i \in 1 .. TriplesPerScan |-> i - 1]
  IN  Only({ [i \in 1 .. (3 * Len(hHits)) |->
                HorizontalKey(hHits[((i - 1) \div 3) + 1], (i - 1) % 3)]
             \o
             [i \in 1 .. (3 * Len(vHits)) |->
                VerticalKey(vHits[((i - 1) \div 3) + 1], (i - 1) % 3)]
             : hHits \in {SelectSeq(triples, HHit)}, vHits \in {SelectSeq(triples, VHit)} })

(* Variant: matches collected in an array, without the Set. *)
findMatchesNoSet(grid) == Adds(grid)

(* l.159: a Set keeps the first insertion of a key only: the positions in
   `adds` that are first insertions. *)
FirstInsertions(adds) ==
  LET First(i) == \A j \in 1 .. (i - 1) : adds[j] # adds[i]
  IN  SelectSeq([i \in 1 .. Len(adds) |-> i], First)

(* l.191-196: the array `matches` lists the keys of `matched` in insertion
   order. *)
InsertionOrder(adds) ==
  Only({ [i \in 1 .. Len(kept) |-> adds[kept[i]]] : kept \in {FirstInsertions(adds)} })

(* l.157-197 *)
findMatches(grid) == Only({ InsertionOrder(adds) : adds \in {Adds(grid)} })

(* ------------------------------------------------------------------ *)
(* processCascade: one resolution step                                 *)
(* ------------------------------------------------------------------ *)
(* l.208-211: copy the grid and null the matched slots. *)
ClearMatched(grid, matches) ==
  Only({ [r \in 1 .. GRID_SIZE |->
            [c \in 1 .. GRID_SIZE |->
               IF <<r - 1, c - 1>> \in matched THEN NULL ELSE grid[r][c]]]
         : matched \in {Range(matches)} })

(* Variant: a moved token keeps its stored row. *)
SettleKeepsRow(g, col, row, emptyRow) ==
  IF At(g, row, col) # NULL /\ row # emptyRow
  THEN Put(Put(g, emptyRow, col, At(g, row, col)), row, col, NULL)
  ELSE g

(* l.217-223: the body of the gravity loop at `row`: a token found above
   emptyRow is moved down to it. *)
Settle(g, col, row, emptyRow) ==
  IF At(g, row, col) # NULL /\ row # emptyRow
  THEN Put(Put(g, emptyRow, col, [At(g, row, col) EXCEPT !.row = emptyRow, !.col = col]),
           row, col, NULL)
  ELSE g

(* l.215-224: the gravity loop of one column, from `row` up to row 0. *)
RECURSIVE GravityColumn(_, _, _, _)
GravityColumn(g, col, row, emptyRow) ==
  IF row < 0
  THEN [grid |-> g, emptyRow |-> emptyRow]
  ELSE Only({ GravityColumn(moved, col, row - 1,
                            IF At(g, row, col) # NULL THEN emptyRow - 1 ELSE emptyRow)
              : moved \in {Settle(g, col, row, emptyRow)} })

(* Variant: the refill loop stops one row short of emptyRow. *)
RefillColumnSkipsRow(g, col, emptyRow, tape, drawn) ==
  [r \in 1 .. GRID_SIZE |->
     IF r - 1 < emptyRow
     THEN [g[r] EXCEPT ![col + 1] =
             Token(RandomType(tape, drawn + (emptyRow - (r - 1))), r - 1, col)]
     ELSE g[r]]

(* l.227-237: fill rows emptyRow..0 of one column; `drawn` draws were made
   before this column. *)
RefillColumn(g, col, emptyRow, tape, drawn) ==
  [r \in 1 .. GRID_SIZE |->
     IF r - 1 <= emptyRow
     THEN [g[r] EXCEPT ![col + 1] =
             Token(RandomType(tape, drawn + (emptyRow - (r - 1))), r - 1, col)]
     ELSE g[r]]

(* l.214-238: the columns left to right. *)
RECURSIVE GravityAndRefill(_, _, _, _)
GravityAndRefill(g, col, tape, drawn) ==
  IF col >= GRID_SIZE
  THEN g
  ELSE Only({ GravityAndRefill(
                RefillColumn(fallen.grid, col, fallen.emptyRow, tape, drawn),
                col + 1, tape, drawn + fallen.emptyRow + 1)
              : fallen \in {GravityColumn(g, col, GRID_SIZE - 1, GRID_SIZE - 1)} })

(* l.200-241 *)
processCascade(grid, tape) ==
  Only({ IF Len(matches) = 0
         THEN [newGrid |-> grid, matchCount |-> 0]
         ELSE Only({ [newGrid |-> GravityAndRefill(newGrid, 0, tape, 0),
                      matchCount |-> Len(matches)]
                     : newGrid \in {ClearMatched(grid, matches)} })
         : matches \in {findMatches(grid)} })

(* ------------------------------------------------------------------ *)
(* State                                                               *)
(* ------------------------------------------------------------------ *)
VARIABLES
  cascadeState,  \* the CascadeState record held by useState
  tasks,         \* slot -> the locals of a processCascadingMatches call in flight
  lastOp,        \* the handler (and its branch) that ran last
  probe,         \* a grid handed to findMatches on its own, and the result
  scoreBefore,   \* history: slot -> the score held when its sequence was started
  lastMove       \* history: slot -> its sequence was started by the swap that spent the last move

vars == <<cascadeState, tasks, lastOp, probe, scoreBefore, lastMove>>

(* selectedToken: null *)
NoSelection == [row |-> -1, col |-> -1]

Slots == 1 .. MaxInFlight

(* A free slot: no call of processCascadingMatches occupies it. *)
NoTask == [grid |-> EmptyGrid, cascadeCombo |-> -1, totalScore |-> -1, counts |-> << >>]

(* l.245-247: the locals of a call that the 100ms timer has yet to start.
   `counts` is no local of the code: it records the matchCount of every
   successful step so far, for the checks of the score. *)
NewTask(initialGrid) ==
  [grid |-> initialGrid, cascadeCombo |-> 0, totalScore |-> 0, counts |-> << >>]

InFlight == {s \in Slots : tasks[s] # NoTask}

(* No sequence in the slot, or its starting score is not recorded. *)
NoScore == [s \in Slots |-> -1]
NoLastMove == [s \in Slots |-> FALSE]

(* No grid is being probed. *)
NoProbe == [grid |-> EmptyGrid, matches |-> << >>, poked |-> FALSE, done |-> FALSE]

(* l.52-62 *)
Init ==
  /\ cascadeState = [grid |-> EmptyGrid,
                     score |-> 0,
                     moves |-> INITIAL_MOVES,
                     level |-> 1,
                     targetScore |-> INITIAL_TARGET,
                     gameStatus |-> "menu",
                     cascadeCombo |-> 0,
                     selectedToken |-> NoSelection,
                     isProcessing |-> FALSE]
  /\ tasks = [s \in Slots |-> NoTask]
  /\ lastOp = "init"
  /\ probe = NoProbe
  /\ scoreBefore = NoScore
  /\ lastMove = NoLastMove

(* ------------------------------------------------------------------ *)
(* handleTokenClick                                                    *)
(* ------------------------------------------------------------------ *)
(* Variant: the early return does not test isProcessing. *)
ClickIgnoredBug(st) == st.gameStatus # "playing"

(* l.299: the early return. *)
ClickIgnored(st) == st.isProcessing \/ st.gameStatus # "playing"

Abs(x) == IF x < 0 THEN -x ELSE x

(* Variant: a diagonal neighbour counts as adjacent. *)
isAdjacentDiagonal(sel, row, col) ==
  Abs(sel.row - row) <= 1 /\ Abs(sel.col - col) <= 1 /\ <<sel.row, sel.col>> # <<row, col>>

(* l.307-309 *)
isAdjacent(sel, row, col) ==
  LET rowDiff == Abs(sel.row - row)
      colDiff == Abs(sel.col - col)
  IN  (rowDiff = 1 /\ colDiff = 0) \/ (rowDiff = 0 /\ colDiff = 1)

(* l.313-327: the grid with the two slots exchanged and the tokens' stored
   positions rewritten. *)
SwappedGrid(grid, sel, row, col) ==
  LET temp == At(grid, row, col)
      other == At(grid, sel.row, sel.col)
  IN  Put(Put(grid, row, col,
              IF other # NULL THEN [other EXCEPT !.row = row, !.col = col] ELSE other),
          sel.row, sel.col,
          IF temp # NULL THEN [temp EXCEPT !.row = sel.row, !.col = sel.col] ELSE temp)

(* Variant: the swap does not take a move. *)
CommitSwapKeepsMoves(prev, newGrid) ==
  [prev EXCEPT !.grid = newGrid,
               !.selectedToken = NoSelection,
               !.isProcessing = TRUE,
               !.gameStatus = IF prev.moves <= 0 /\ prev.score < prev.targetScore
                              THEN "gameOver" ELSE prev.gameStatus]

(* Variant: gameOver is set one move early. *)
CommitSwapOffByOne(prev, newGrid) ==
  [prev EXCEPT !.grid = newGrid,
               !.selectedToken = NoSelection,
               !.isProcessing = TRUE,
               !.moves = prev.moves - 1,
               !.gameStatus = IF prev.moves - 1 <= 1 /\ prev.score < prev.targetScore
                              THEN "gameOver" ELSE prev.gameStatus]

(* Variant: the last move does not end the game. *)
CommitSwapNeverOver(prev, newGrid) ==
  [prev EXCEPT !.grid = newGrid,
               !.selectedToken = NoSelection,
               !.isProcessing = TRUE,
               !.moves = prev.moves - 1]

(* l.335-349: the state a matching swap commits. *)
CommitSwap(prev, newGrid) ==
  LET newMoves == prev.moves - 1
      newStatus == IF newMoves <= 0 /\ prev.score < prev.targetScore
                   THEN "gameOver" ELSE prev.gameStatus
  IN  [prev EXCEPT !.grid = newGrid,
                   !.selectedToken = NoSelection,
                   !.isProcessing = TRUE,
                   !.moves = newMoves,
                   !.gameStatus = newStatus]

(* Variant: the dropped swap still takes a move. *)
RevertSwapSpendsMove(prev) ==
  [prev EXCEPT !.selectedToken = NoSelection, !.moves = prev.moves - 1]

(* l.352: the swap is dropped. *)
RevertSwap(prev) == [prev EXCEPT !.selectedToken = NoSelection]

(* l.304, l.356 *)
Select(prev, row, col) == [prev EXCEPT !.selectedToken = [row |-> row, col |-> col]]

(* l.333: setTimeout(() => processCascadingMatches(newGrid), 100) *)
Schedule(ts, newGrid) ==
  LET s == CHOOSE f \in Slots : ts[f] = NoTask /\ \A g \in Slots : ts[g] = NoTask => f <= g
  IN  [ts EXCEPT ![s] = NewTask(newGrid)]

(* l.298-360.  A matching swap needs a free slot for its sequence: at most
   MaxInFlight sequences are followed at a time. *)
handleTokenClick(row, col) ==
  /\ UNCHANGED probe
  /\ IF ClickIgnored(cascadeState)
     THEN /\ UNCHANGED <<cascadeState, tasks>>
          /\ lastOp' = "ignored"
     ELSE IF cascadeState.selectedToken = NoSelection
     THEN /\ cascadeState' = Select(cascadeState, row, col)
          /\ UNCHANGED tasks
          /\ lastOp' = "select"
     ELSE IF isAdjacent(cascadeState.selectedToken, row, col)
     THEN LET newGrid == SwappedGrid(cascadeState.grid, cascadeState.selectedToken, row, col)
          IN  IF Len(findMatches(newGrid)) > 0
              THEN /\ InFlight # Slots
                   /\ cascadeState' = CommitSwap(cascadeState, newGrid)
                   /\ tasks' = Schedule(tasks, newGrid)
                   /\ lastOp' = "swap"
              ELSE /\ cascadeState' = RevertSwap(cascadeState)
                   /\ UNCHANGED tasks
                   /\ lastOp' = "revert"
     ELSE /\ cascadeState' = Select(cascadeState, row, col)
          /\ UNCHANGED tasks
          /\ lastOp' = "reselect"

(* ------------------------------------------------------------------ *)
(* processCascadingMatches                                             *)
(* ------------------------------------------------------------------ *)
(* l.254-258: a step that cleared matchCount > 0 cells. *)
StepTask(task, result) ==
  LET cascadeCombo == task.cascadeCombo + 1
      scoreGain == result.matchCount * ScorePerToken * cascadeCombo
  IN  [grid |-> result.newGrid,
       cascadeCombo |-> cascadeCombo,
       totalScore |-> task.totalScore + scoreGain,
       counts |-> Append(task.counts, result.matchCount)]

(* l.291 with l.278: Math.floor(targetScore * 1.5) *)
RaisedTarget(targetScore) == (targetScore * 3) \div 2

(* The update of l.268-294 with the level-up test and the processing flag
   left open, for the variants below. *)
CommitWith(prev, task, levelUp, processing) ==
  [prev EXCEPT
     !.grid = task.grid,
     !.score = prev.score + task.totalScore,
     !.cascadeCombo = IF task.totalScore > 0 THEN task.cascadeCombo ELSE 0,
     !.isProcessing = processing,
     !.gameStatus = IF levelUp THEN "levelComplete" ELSE prev.gameStatus,
     !.level = IF levelUp THEN prev.level + 1 ELSE prev.level,
     !.targetScore = IF levelUp THEN (prev.targetScore * 3) \div 2 ELSE prev.targetScore,
     !.moves = IF levelUp THEN INITIAL_MOVES ELSE prev.moves]

(* Variant: the level is complete only above the target. *)
CommitCascadeStrict(prev, task) ==
  CommitWith(prev, task,
             prev.score + task.totalScore > prev.targetScore /\ prev.gameStatus = "playing",
             FALSE)

(* Variant: the level-up does not test the status. *)
CommitCascadeAnyStatus(prev, task) ==
  CommitWith(prev, task, prev.score + task.totalScore >= prev.targetScore, FALSE)

(* Variant: the commit leaves isProcessing set. *)
CommitCascadeStaysBusy(prev, task) ==
  CommitWith(prev, task,
             prev.score + task.totalScore >= prev.targetScore /\ prev.gameStatus = "playing",
             TRUE)

(* l.268-294: the state update made when the loop has ended. *)
CommitCascade(prev, task) ==
  LET newScore == prev.score + task.totalScore
      levelUp == newScore >= prev.targetScore /\ prev.gameStatus = "playing"
  IN  [prev EXCEPT
         !.grid = task.grid,
         !.score = newScore,
         !.cascadeCombo = IF task.totalScore > 0 THEN task.cascadeCombo ELSE 0,
         !.isProcessing = FALSE,
         !.gameStatus = IF levelUp THEN "levelComplete" ELSE prev.gameStatus,
         !.level = IF levelUp THEN prev.level + 1 ELSE prev.level,
         !.targetScore = IF levelUp THEN RaisedTarget(prev.targetScore) ELSE prev.targetScore,
         !.moves = IF levelUp THEN INITIAL_MOVES ELSE prev.moves]

(* One wake-up of the loop (the 100ms timer or the end of a 300ms sleep)
   in which processCascade finds matches: l.250-265.  A sequence is followed
   for at most MaxCombo steps: its last step must leave a grid without a
   match. *)
CascadeStep(s, tape) ==
  /\ tasks[s] # NoTask
  /\ tasks[s].cascadeCombo < MaxCombo
  /\ \E result \in {processCascade(tasks[s].grid, tape)} :
         /\ result.matchCount # 0
         /\ tasks[s].cascadeCombo + 1 = MaxCombo => Len(findMatches(result.newGrid)) = 0
         /\ tasks' = [tasks EXCEPT ![s] = StepTask(tasks[s], result)]
  /\ UNCHANGED <<cascadeState, probe>>
  /\ lastOp' = "step"

(* The wake-up in which processCascade finds no match: l.250-252, l.268-294. *)
CascadeEnd(s) ==
  /\ tasks[s] # NoTask
  /\ Len(findMatches(tasks[s].grid)) = 0
  /\ cascadeState' = CommitCascade(cascadeState, tasks[s])
  /\ tasks' = [tasks EXCEPT ![s] = NoTask]
  /\ lastOp' = "commit"
  /\ UNCHANGED probe

(* ------------------------------------------------------------------ *)
(* startGame, nextLevel                                                *)
(* ------------------------------------------------------------------ *)
(* l.365-375 *)
StartState(grid) ==
  [grid |-> grid,
   score |-> 0,
   moves |-> INITIAL_MOVES,
   level |-> 1,
   targetScore |-> INITIAL_TARGET,
   gameStatus |-> "playing",
   cascadeCombo |-> 0,
   selectedToken |-> NoSelection,
   isProcessing |-> FALSE]

(* Variant: the next level starts from score 0. *)
NextLevelStateResetsScore(prev, grid) ==
  [prev EXCEPT !.grid = grid,
               !.score = 0,
               !.gameStatus = "playing",
               !.moves = INITIAL_MOVES,
               !.cascadeCombo = 0,
               !.selectedToken = NoSelection,
               !.isProcessing = FALSE]

(* l.381-389 *)
NextLevelState(prev, grid) ==
  [prev EXCEPT !.grid = grid,
               !.gameStatus = "playing",
               !.moves = INITIAL_MOVES,
               !.cascadeCombo = 0,
               !.selectedToken = NoSelection,
               !.isProcessing = FALSE]

(* The start / restart button is rendered in menu and gameOver only
   (l.480, l.528). *)
startGame(tape) ==
  /\ cascadeState.gameStatus \in {"menu", "gameOver"}
  /\ cascadeState' = StartState(createInitialGrid(tape))
  /\ UNCHANGED <<tasks, probe>>
  /\ lastOp' = "start"

(* The next-level button is rendered in levelComplete only (l.510).  Levels
   beyond MaxLevel + 1 are not played. *)
nextLevel(tape) ==
  /\ cascadeState.gameStatus = "levelComplete"
  /\ cascadeState.level <= MaxLevel
  /\ cascadeState' = NextLevelState(cascadeState, createInitialGrid(tape))
  /\ UNCHANGED <<tasks, probe>>
  /\ lastOp' = "next"

(* The cells the player clicks: a window of the board. *)
ClickCells == {cell \in Cells : cell[1] < ClickSpan /\ cell[2] \in 1 .. ClickSpan}

Click == (\E cell \in ClickCells : handleTokenClick(cell[1], cell[2])) /\ UNCHANGED <<scoreBefore, lastMove>>
Step == (\E s \in Slots, tape \in Tapes : CascadeStep(s, tape)) /\ UNCHANGED <<scoreBefore, lastMove>>
End == (\E s \in Slots : CascadeEnd(s)) /\ UNCHANGED <<scoreBefore, lastMove>>
Start == (\E tape \in Tapes : startGame(tape)) /\ UNCHANGED <<scoreBefore, lastMove>>
Advance == (\E tape \in Tapes : nextLevel(tape)) /\ UNCHANGED <<scoreBefore, lastMove>>

Next == Click \/ Step \/ End \/ Start \/ Advance

Spec == Init /\ [][Next]_vars

(* ------------------------------------------------------------------ *)
(* The same program, with the starting score of every sequence noted  *)
(* ------------------------------------------------------------------ *)
(* l.333: the swap that schedules a sequence holds prev.score. *)
NotedClick ==
  \E cell \in ClickCells :
    /\ handleTokenClick(cell[1], cell[2])
    /\ scoreBefore' = [s \in Slots |->
                         IF tasks[s] = NoTask /\ tasks'[s] # NoTask
                         THEN cascadeState.score
                         ELSE scoreBefore[s]]
    /\ UNCHANGED lastMove

(* l.268-294: the sequence of the slot is over. *)
NotedEnd ==
  \E s \in Slots :
    /\ CascadeEnd(s)
    /\ scoreBefore' = [scoreBefore EXCEPT ![s] = -1]
    /\ UNCHANGED lastMove

(* The first level, played and restarted any number of times. *)
ScoreNext == NotedClick \/ Step \/ NotedEnd \/ Start

ScoreSpec == Init /\ [][ScoreNext]_vars

(* ------------------------------------------------------------------ *)
(* The same program, with the sequence of the last move marked        *)
(* ------------------------------------------------------------------ *)
(* l.333-336: the swap that schedules a sequence writes moves = prev.moves - 1;
   the sequence is marked when that is 0. *)
MarkedClick ==
  \E cell \in ClickCells :
    /\ handleTokenClick(cell[1], cell[2])
    /\ lastMove' = [s \in Slots |->
                      IF tasks[s] = NoTask /\ tasks'[s] # NoTask
                      THEN cascadeState.moves - 1 = 0
                      ELSE lastMove[s]]
    /\ UNCHANGED scoreBefore

(* l.268-294: the sequence of the slot is over. *)
MarkedEnd ==
  \E s \in Slots :
    /\ CascadeEnd(s)
    /\ lastMove' = [lastMove EXCEPT ![s] = FALSE]
    /\ UNCHANGED scoreBefore

(* The first level, played and restarted any number of times. *)
LastMoveNext == MarkedClick \/ Step \/ MarkedEnd \/ Start

LastMoveSpec == Init /\ [][LastMoveNext]_vars

(* ------------------------------------------------------------------ *)
(* The cascade loop without a bound on its steps                      *)
(* ------------------------------------------------------------------ *)
(* One game, from the menu to its end, with the loop free to run for as long
   as the refill keeps producing matches.  The counters of a sequence are
   exact for its first MaxCombo steps; later steps advance its grid only. *)
LongStepTask(task, result) ==
  IF task.cascadeCombo < MaxCombo
  THEN StepTask(task, result)
  ELSE [task EXCEPT !.grid = result.newGrid]

(* l.250-265, as CascadeStep, for any number of steps. *)
LongCascadeStep(s, tape) ==
  /\ tasks[s] # NoTask
  /\ \E result \in {processCascade(tasks[s].grid, tape)} :
         /\ result.matchCount # 0
         /\ tasks' = [tasks EXCEPT ![s] = LongStepTask(tasks[s], result)]
  /\ UNCHANGED <<cascadeState, probe>>
  /\ lastOp' = "step"

FirstStart ==
  /\ \E tape \in Tapes : cascadeState.gameStatus = "menu" /\ startGame(tape)
  /\ UNCHANGED <<scoreBefore, lastMove>>
LongStep == (\E s \in Slots, tape \in Tapes : LongCascadeStep(s, tape)) /\ UNCHANGED <<scoreBefore, lastMove>>

LiveNext == FirstStart \/ Click \/ LongStep \/ End

(* A timer that is due fires: setTimeout callbacks are never starved. *)
Wake(s) ==
  /\ (\E tape \in Tapes : LongCascadeStep(s, tape)) \/ CascadeEnd(s)
  /\ UNCHANGED <<scoreBefore, lastMove>>

LiveSpec == Init /\ [][LiveNext]_vars /\ \A s \in Slots : WF_vars(Wake(s))

(* ------------------------------------------------------------------ *)
(* findMatches on its own                                              *)
(* ------------------------------------------------------------------ *)
(* The grids handed to findMatches: every slot null or of some kind, the
   kinds read off a periodic tape (0 = null) row by row or column by column. *)
ProbeTapes == UNION {[1 .. n -> 0 .. NumTypes] : n \in 1 .. ProbeTapeLen}

ProbeToken(tape, k, row, col) ==
  LET t == tape[(k % Len(tape)) + 1]
  IN  IF t = 0 THEN NULL ELSE Token(TOKEN_TYPES[t], row, col)

ProbeGrid(tape, byColumn) ==
  [r \in 1 .. GRID_SIZE |->
     [c \in 1 .. GRID_SIZE |->
        ProbeToken(tape,
                   IF byColumn THEN (c - 1) * GRID_SIZE + (r - 1)
                               ELSE (r - 1) * GRID_SIZE + (c - 1),
                   r - 1, c - 1)]]

ProbeInit ==
  /\ cascadeState = [grid |-> EmptyGrid, score |-> 0, moves |-> INITIAL_MOVES,
                     level |-> 1, targetScore |-> INITIAL_TARGET,
                     gameStatus |-> "menu", cascadeCombo |-> 0,
                     selectedToken |-> NoSelection, isProcessing |-> FALSE]
  /\ tasks = [s \in Slots |-> NoTask]
  /\ lastOp = "init"
  /\ scoreBefore = NoScore
  /\ lastMove = NoLastMove
  /\ \E tape \in ProbeTapes, byColumn \in BOOLEAN :
       probe = [grid |-> ProbeGrid(tape, byColumn), matches |-> << >>,
                poked |-> FALSE, done |-> FALSE]

(* Overwrite one slot of the probed grid, once. *)
Poke(row, col, t) ==
  /\ ~probe.done
  /\ ~probe.poked
  /\ probe' = [probe EXCEPT
                 !.grid = Put(probe.grid, row, col,
                              IF t = 0 THEN NULL ELSE Token(TOKEN_TYPES[t], row, col)),
                 !.poked = TRUE]
  /\ UNCHANGED <<cascadeState, tasks, lastOp, scoreBefore, lastMove>>

(* Call findMatches on the probed grid. *)
Detect ==
  /\ ~probe.done
  /\ probe' = [probe EXCEPT !.matches = findMatches(probe.grid), !.done = TRUE]
  /\ UNCHANGED <<cascadeState, tasks, lastOp, scoreBefore, lastMove>>

PokeAny == \E cell \in Cells, t \in 0 .. NumTypes : Poke(cell[1], cell[2], t)

ProbeNext == PokeAny \/ Detect

ProbeSpec == ProbeInit /\ [][ProbeNext]_vars

(* ------------------------------------------------------------------ *)
(* processCascade on its own                                           *)
(* ------------------------------------------------------------------ *)
(* The grids handed to processCascade: every slot of some kind (one slot may
   then be overwritten by Poke), the kinds read off a periodic tape. *)
FullTapes == UNION {[1 .. n -> 1 .. NumTypes] : n \in 1 .. ResolveTapeLen}

ResolveInit ==
  /\ cascadeState = [grid |-> EmptyGrid, score |-> 0, moves |-> INITIAL_MOVES,
                     level |-> 1, targetScore |-> INITIAL_TARGET,
                     gameStatus |-> "menu", cascadeCombo |-> 0,
                     selectedToken |-> NoSelection, isProcessing |-> FALSE]
  /\ tasks = [s \in Slots |-> NoTask]
  /\ lastOp = "init"
  /\ scoreBefore = NoScore
  /\ lastMove = NoLastMove
  /\ \E tape \in FullTapes, byColumn \in BOOLEAN :
       probe = [grid |-> ProbeGrid(tape, byColumn), matches |-> << >>,
                poked |-> FALSE, done |-> FALSE,
                result |-> [newGrid |-> EmptyGrid, matchCount |-> -1]]

(* Call processCascade on the probed grid; the refill reads `tape`. *)
Resolve(tape) ==
  /\ ~probe.done
  /\ probe' = [probe EXCEPT !.result = processCascade(probe.grid, tape), !.done = TRUE]
  /\ UNCHANGED <<cascadeState, tasks, lastOp, scoreBefore, lastMove>>

ResolveAny == \E tape \in Tapes : Resolve(tape)

ResolveNext == PokeAny \/ ResolveAny

ResolveSpec == ResolveInit /\ [][ResolveNext]_vars

(* ------------------------------------------------------------------ *)
(* Claims                                                              *)
(* ------------------------------------------------------------------ *)

(* C1: in every reachable state at most one cascade resolution sequence is
   scheduled or in flight. *)
C1_AtMostOneSequence == Cardinality(InFlight) <= 1

(* C2: a click made while isProcessing is true or while the status is not
   playing changes no field of the game state and starts no cascade. *)
C2_BlockedClickChangesNothing ==
  [][\A cell \in Cells :
       (/\ cascadeState.isProcessing \/ cascadeState.gameStatus # "playing"
        /\ handleTokenClick(cell[1], cell[2]))
       => (cascadeState' = cascadeState /\ tasks' = tasks)]_vars

C2_Witness ==
  /\ lastOp = "ignored"
  /\ cascadeState.isProcessing
  /\ cascadeState.gameStatus = "playing"
  /\ InFlight # {}

(* C3: in a playing state with a pending selection, a click on an adjacent
   cell whose swap yields a grid without a match leaves grid, moves, score,
   level, target, status and isProcessing as they were, clears the selection
   and starts no cascade.  (Every step of handleTokenClick sets lastOp to one
   of its branches, so the conjunct on lastOp' excludes no click.) *)
C3_NoMatchSwapIsDiscarded ==
  [][\A cell \in Cells :
       (/\ cascadeState.gameStatus = "playing"
        /\ cascadeState.selectedToken # NoSelection
        /\ isAdjacent(cascadeState.selectedToken, cell[1], cell[2])
        /\ lastOp' \in {"ignored", "select", "swap", "revert", "reselect"}
        /\ Len(findMatches(SwappedGrid(cascadeState.grid, cascadeState.selectedToken,
                                       cell[1], cell[2]))) = 0
        /\ handleTokenClick(cell[1], cell[2]))
       => (/\ cascadeState'.grid = cascadeState.grid
           /\ cascadeState'.moves = cascadeState.moves
           /\ cascadeState'.score = cascadeState.score
           /\ cascadeState'.level = cascadeState.level
           /\ cascadeState'.targetScore = cascadeState.targetScore
           /\ cascadeState'.gameStatus = cascadeState.gameStatus
           /\ cascadeState'.isProcessing = cascadeState.isProcessing
           /\ cascadeState'.selectedToken = NoSelection
           /\ tasks' = tasks)]_vars

C3_Witness ==
  /\ lastOp = "revert"
  /\ cascadeState.gameStatus = "playing"
  /\ cascadeState.selectedToken = NoSelection

(* C4: a matching swap takes exactly one move when it is committed, and no
   wake-up of the cascade loop (a step or its final commit) lowers moves. *)
C4_OneMovePerSwap ==
  [][/\ lastOp' = "swap" => cascadeState'.moves = cascadeState.moves - 1
     /\ lastOp' \in {"step", "commit"} => cascadeState'.moves >= cascadeState.moves]_vars

C4_Witness ==
  /\ lastOp = "step"
  /\ cascadeState.isProcessing
  /\ cascadeState.gameStatus = "playing"
  /\ cascadeState.moves = INITIAL_MOVES - 1
  /\ \E s \in InFlight : tasks[s].cascadeCombo >= 2

(* The slot whose sequence a step of the behaviour has just committed. *)
Committed(s) == tasks[s] # NoTask /\ tasks'[s] = NoTask

(* Sum of counts[i] * 10 * i over i = 1 .. Len(counts). *)
RECURSIVE ComboScore(_)
ComboScore(counts) ==
  IF Len(counts) = 0
  THEN 0
  ELSE ComboScore(SubSeq(counts, 1, Len(counts) - 1))
       + counts[Len(counts)] * 10 * Len(counts)

(* C5: when a sequence whose successful steps cleared c1, ..., cn cells
   completes, the score is the score held before the sequence (when its swap
   was committed) plus the sum of c_i * 10 * i, and the combo counter is n. *)
C5_CascadeScore ==
  [][lastOp' = "commit" =>
       \E s \in Slots :
         /\ Committed(s)
         /\ Len(tasks[s].counts) >= 1
         /\ cascadeState'.score = scoreBefore[s] + ComboScore(tasks[s].counts)
         /\ cascadeState'.cascadeCombo = Len(tasks[s].counts)]_vars

(* C6: a sequence that completes while the status is playing with the new
   score at or above the target sets levelComplete, level + 1, target
   floor(target * 1.5) and moves to the initial allotment; with the new score
   below the target it leaves status, level, target and moves alone. *)
C6_LevelCompletion ==
  [][(lastOp' = "commit" /\ cascadeState.gameStatus = "playing") =>
       IF cascadeState'.score >= cascadeState.targetScore
       THEN /\ cascadeState'.gameStatus = "levelComplete"
            /\ cascadeState'.level = cascadeState.level + 1
            /\ cascadeState'.targetScore =
                 cascadeState.targetScore + (cascadeState.targetScore \div 2)
            /\ cascadeState'.moves = INITIAL_MOVES
       ELSE /\ cascadeState'.gameStatus = cascadeState.gameStatus
            /\ cascadeState'.level = cascadeState.level
            /\ cascadeState'.targetScore = cascadeState.targetScore
            /\ cascadeState'.moves = cascadeState.moves]_vars

(* The score reaches the target exactly. *)
C6_Witness ==
  /\ lastOp = "commit"
  /\ cascadeState.gameStatus = "levelComplete"
  /\ cascadeState.level = 2
  /\ cascadeState.score = INITIAL_TARGET
  /\ cascadeState.moves = INITIAL_MOVES

(* C7: a committed swap sets gameOver exactly when it brings moves to 0 while
   the score held before the cascade is below the target; every other
   committed swap leaves the status playing. *)
C7_GameOverOnLastMove ==
  [][lastOp' = "swap" =>
       IF cascadeState'.moves = 0 /\ cascadeState.score < cascadeState.targetScore
       THEN cascadeState'.gameStatus = "gameOver"
       ELSE cascadeState'.gameStatus = "playing"]_vars

C7_Witness ==
  /\ lastOp = "swap"
  /\ cascadeState.gameStatus = "gameOver"
  /\ cascadeState.moves = 0
  /\ cascadeState.score < cascadeState.targetScore
  /\ cascadeState.score > 0

(* C8: the status changes only along menu -> playing (start), playing ->
   levelComplete (a cascade completing at or above the target), levelComplete
   -> playing (next level), playing -> gameOver (a swap exhausting the moves
   with the score below the target) and gameOver -> playing (restart). *)
C8_StatusEdges ==
  [][cascadeState'.gameStatus # cascadeState.gameStatus =>
       LET from == cascadeState.gameStatus
           to == cascadeState'.gameStatus
       IN  \/ from = "menu" /\ to = "playing" /\ lastOp' = "start"
           \/ /\ from = "playing" /\ to = "levelComplete" /\ lastOp' = "commit"
              /\ cascadeState'.score >= cascadeState.targetScore
           \/ from = "levelComplete" /\ to = "playing" /\ lastOp' = "next"
           \/ /\ from = "playing" /\ to = "gameOver" /\ lastOp' = "swap"
              /\ cascadeState'.moves = 0
              /\ cascadeState.score < cascadeState.targetScore
           \/ from = "gameOver" /\ to = "playing" /\ lastOp' = "start"]_vars

(* A cascade completed in gameOver with the score at or above the target,
   and the status stayed gameOver. *)
C8_Witness ==
  /\ lastOp = "commit"
  /\ cascadeState.gameStatus = "gameOver"
  /\ cascadeState.score >= cascadeState.targetScore

(* C9 as stated: once isProcessing is true, the loop eventually commits and
   isProcessing is false again, whatever the refill draws. *)
C9_AlwaysCompletes ==
  cascadeState.isProcessing ~> (lastOp = "commit" /\ ~cascadeState.isProcessing)

(* A step of the loop whose refilled grid holds a match again. *)
RefillMatches ==
  \E s \in Slots, tape \in Tapes :
    LongCascadeStep(s, tape) /\ Len(findMatches(tasks'[s].grid)) > 0

(* C9, amended: the loop has no step limit and no abort path; a sequence
   that is started commits and clears isProcessing unless the refill draws a
   new match again and again for ever. *)
C9_CompletesUnlessRefillMatchesForever ==
  ([]<><<RefillMatches>>_vars)
  \/ (cascadeState.isProcessing ~> (lastOp = "commit" /\ ~cascadeState.isProcessing))

(* A sequence of two steps has run to its commit. *)
C9_Witness ==
  /\ lastOp = "commit"
  /\ ~cascadeState.isProcessing
  /\ cascadeState.cascadeCombo >= 2
  /\ InFlight = {}

(* The length of the run of slots of the kind of (row, col) that starts next
   to it and goes in direction (dr, dc). *)
KindAt(grid, row, col) ==
  IF row \in Rows /\ col \in Rows THEN At(grid, row, col).type ELSE "off"

RECURSIVE Reach(_, _, _, _, _)
Reach(grid, row, col, dr, dc) ==
  IF KindAt(grid, row + dr, col + dc) = KindAt(grid, row, col)
  THEN 1 + Reach(grid, row + dr, col + dc, dr, dc)
  ELSE 0

(* The cells of the maximal horizontal or vertical runs of 3 or more tokens
   of one kind. *)
RunCells(grid) ==
  {cell \in Cells :
     /\ At(grid, cell[1], cell[2]) # NULL
     /\ \/ 1 + Reach(grid, cell[1], cell[2], 0, -1) + Reach(grid, cell[1], cell[2], 0, 1) >= 3
        \/ 1 + Reach(grid, cell[1], cell[2], -1, 0) + Reach(grid, cell[1], cell[2], 1, 0) >= 3}

(* C10: for every grid, with or without empty slots, findMatches returns
   each cell of a maximal horizontal or vertical run of 3 or more tokens of
   one kind exactly once, and nothing else. *)
C10_MatchesAreRunCells ==
  probe.done =>
    /\ Range(probe.matches) = RunCells(probe.grid)
    /\ Len(probe.matches) = Cardinality(RunCells(probe.grid))

(* A grid with an empty slot, a full row of one kind (two merged triples), a
   diagonal of one kind that does not count, and unmatched tokens. *)
C10_Witness ==
  /\ probe.done
  /\ \E cell \in Cells : At(probe.grid, cell[1], cell[2]) = NULL
  /\ \E row \in Rows : \A col \in Rows : <<row, col>> \in Range(probe.matches)
  /\ \E cell \in Cells :
       /\ cell \notin Range(probe.matches)
       /\ At(probe.grid, cell[1], cell[2]) # NULL
       /\ cell[1] + 2 \in Rows /\ cell[2] + 2 \in Rows
       /\ At(probe.grid, cell[1] + 1, cell[2] + 1).type = At(probe.grid, cell[1], cell[2]).type
       /\ At(probe.grid, cell[1] + 2, cell[2] + 2).type = At(probe.grid, cell[1], cell[2]).type

(* C11: in a playing state with a pending selection, a click on a cell whose
   Manhattan distance from the selected cell is not exactly 1 (the selected
   cell itself included) makes the clicked cell the pending selection and
   leaves grid, moves, score, status and isProcessing as they were; no
   sequence is started. *)
C11_NonAdjacentClickReselects ==
  [][\A cell \in Cells :
       (/\ cascadeState.gameStatus = "playing"
        /\ cascadeState.selectedToken # NoSelection
        /\ Abs(cascadeState.selectedToken.row - cell[1])
             + Abs(cascadeState.selectedToken.col - cell[2]) # 1
        /\ handleTokenClick(cell[1], cell[2]))
       => (/\ cascadeState'.selectedToken = [row |-> cell[1], col |-> cell[2]]
           /\ cascadeState'.grid = cascadeState.grid
           /\ cascadeState'.moves = cascadeState.moves
           /\ cascadeState'.score = cascadeState.score
           /\ cascadeState'.gameStatus = cascadeState.gameStatus
           /\ cascadeState'.isProcessing = cascadeState.isProcessing
           /\ tasks' = tasks)]_vars

C11_Witness ==
  /\ lastOp = "reselect"
  /\ cascadeState.gameStatus = "playing"
  /\ cascadeState.selectedToken # NoSelection
  /\ cascadeState.score > 0

(* A GRID_SIZE x GRID_SIZE matrix with a token in every slot. *)
FullGrid(grid) ==
  /\ Len(grid) = GRID_SIZE
  /\ \A r \in 1 .. GRID_SIZE :
       /\ Len(grid[r]) = GRID_SIZE
       /\ \A c \in 1 .. GRID_SIZE : grid[r][c] # NULL

(* C12 as stated: in every reachable state, whatever the status, the grid is
   a full GRID_SIZE x GRID_SIZE matrix. *)
C12_GridAlwaysFull == FullGrid(cascadeState.grid)

(* C12, amended: once a game has been started (status other than menu) the
   grid of the state is a full GRID_SIZE x GRID_SIZE matrix; in menu, before
   the first start, it is the empty array. *)
C12_GridFullOnceStarted ==
  IF cascadeState.gameStatus = "menu"
  THEN cascadeState.grid = EmptyGrid
  ELSE FullGrid(cascadeState.grid)

(* A sequence of two steps has committed its refilled grid. *)
C12_Witness ==
  /\ lastOp = "commit"
  /\ cascadeState.cascadeCombo = 2
  /\ cascadeState.gameStatus = "levelComplete"
  /\ FullGrid(cascadeState.grid)

(* C13: in every reachable state isProcessing is true whenever a sequence is
   scheduled or in flight. *)
C13_ProcessingWhileInFlight == InFlight # {} => cascadeState.isProcessing

(* C14: after a swap attempt that produces no match the combo counter is 0,
   whatever it was before the attempt. *)
C14_NoMatchSwapResetsCombo ==
  [][\A cell \in Cells :
       (/\ cascadeState.gameStatus = "playing"
        /\ ~cascadeState.isProcessing
        /\ cascadeState.selectedToken # NoSelection
        /\ isAdjacent(cascadeState.selectedToken, cell[1], cell[2])
        /\ lastOp' \in {"ignored", "select", "swap", "revert", "reselect"}
        /\ Len(findMatches(SwappedGrid(cascadeState.grid, cascadeState.selectedToken,
                                       cell[1], cell[2]))) = 0
        /\ handleTokenClick(cell[1], cell[2]))
       => cascadeState'.cascadeCombo = 0]_vars

(* The rows of column col, top to bottom, whose token is not cleared. *)
KeptRows(cleared, col) ==
  LET Kept(r) == <<r, col>> \notin cleared
  IN  SelectSeq([i \in 1 .. GRID_SIZE |-> i - 1], Kept)

(* C15: for every full grid with a match, one resolution step returns the
   number of matched cells as its count and a grid in which, in each column,
   the unmatched tokens keep their top-to-bottom order and fill the bottom
   slots with their stored row and col equal to the slot, and the top slots,
   as many as cells were cleared in the column, hold generated tokens. *)
C15_StepCompactsColumns ==
  (probe.done /\ FullGrid(probe.grid) /\ RunCells(probe.grid) # {}) =>
    LET cleared == RunCells(probe.grid)
        new == probe.result.newGrid
    IN  /\ probe.result.matchCount = Cardinality(cleared)
        /\ FullGrid(new)
        /\ \A col \in Rows :
             LET kept == KeptRows(cleared, col)
                 fresh == Cardinality({r \in Rows : <<r, col>> \in cleared})
             IN  /\ Len(kept) + fresh = GRID_SIZE
                 /\ \A i \in 1 .. Len(kept) :
                      At(new, fresh + i - 1, col) =
                        Token(At(probe.grid, kept[i], col).type, fresh + i - 1, col)
                 /\ \A r \in 0 .. (fresh - 1) :
                      /\ At(new, r, col).type \in Range(TOKEN_TYPES)
                      /\ At(new, r, col).row = r
                      /\ At(new, r, col).col = col

(* The example of the claim: a lone horizontal triple below the top row; the
   tokens above it come down by one. *)
C15_Witness ==
  /\ probe.done
  /\ FullGrid(probe.grid)
  /\ probe.result.matchCount = 3
  /\ \E row \in Rows \ {0}, col \in Rows :
       /\ RunCells(probe.grid) = {<<row, col>>, <<row, col + 1>>, <<row, col + 2>>}
       /\ \A k \in 0 .. 2 :
            At(probe.result.newGrid, row, col + k).type = At(probe.grid, row - 1, col + k).type

(* C16: the commit of the sequence started by the swap that spent the last
   move adds the sequence's score and changes none of status, level, target
   score and moves. *)
C16_LastCascadeOnlyAddsScore ==
  [][\A s \in Slots :
       (lastMove[s] /\ CascadeEnd(s)) =>
         /\ cascadeState'.score = cascadeState.score + tasks[s].totalScore
         /\ cascadeState'.gameStatus = cascadeState.gameStatus
         /\ cascadeState'.level = cascadeState.level
         /\ cascadeState'.targetScore = cascadeState.targetScore
         /\ cascadeState'.moves = cascadeState.moves]_vars

(* A started game in which no swap has been committed yet. *)
NoSwapYet ==
  /\ cascadeState.gameStatus = "playing"
  /\ cascadeState.moves = INITIAL_MOVES
  /\ cascadeState.level = 1
  /\ cascadeState.score = 0

(* C17: startGame leaves the fresh state (playing, score 0, level 1, the
   initial target, all moves, combo 0, no selection, not processing, a full
   new grid), and from then on score, level and grid do not change before a
   matching swap is committed in the new game. *)
C17_RestartDiscardsPreviousGame ==
  [][/\ lastOp' = "start" =>
          /\ cascadeState'.gameStatus = "playing"
          /\ cascadeState'.score = 0
          /\ cascadeState'.level = 1
          /\ cascadeState'.targetScore = INITIAL_TARGET
          /\ cascadeState'.moves = INITIAL_MOVES
          /\ cascadeState'.cascadeCombo = 0
          /\ cascadeState'.selectedToken = NoSelection
          /\ ~cascadeState'.isProcessing
          /\ FullGrid(cascadeState'.grid)
     /\ (NoSwapYet /\ lastOp' \notin {"swap", "start"}) =>
          /\ cascadeState'.score = cascadeState.score
          /\ cascadeState'.level = cascadeState.level
          /\ cascadeState'.grid = cascadeState.grid]_vars

(* C18: nextLevel, invoked in levelComplete, sets status playing, a new full
   grid, all moves, combo 0, no selection and processing false, and leaves
   score, level and target score as they were. *)
C18_NextLevelResetsBoardOnly ==
  [][(cascadeState.gameStatus = "levelComplete" /\ \E tape \in Tapes : nextLevel(tape)) =>
       /\ cascadeState'.gameStatus = "playing"
       /\ FullGrid(cascadeState'.grid)
       /\ \E tape \in Tapes : cascadeState'.grid = createInitialGrid(tape)
       /\ cascadeState'.moves = INITIAL_MOVES
       /\ cascadeState'.cascadeCombo = 0
       /\ cascadeState'.selectedToken = NoSelection
       /\ ~cascadeState'.isProcessing
       /\ cascadeState'.score = cascadeState.score
       /\ cascadeState'.level = cascadeState.level
       /\ cascadeState'.targetScore = cascadeState.targetScore]_vars

C18_Witness ==
  /\ lastOp = "next"
  /\ cascadeState.gameStatus = "playing"
  /\ cascadeState.level = 2
  /\ cascadeState.score >= INITIAL_TARGET
  /\ cascadeState.moves = INITIAL_MOVES

(* C19: the grid a cascade sequence commits when it completes is fully
   occupied and has no horizontal or vertical run of three or more tokens of
   one kind. *)
C19_CommittedGridIsStable ==
  [][\A s \in Slots :
       CascadeEnd(s) =>
         /\ cascadeState'.grid = tasks[s].grid
         /\ FullGrid(cascadeState'.grid)
         /\ RunCells(cascadeState'.grid) = {}]_vars

C19_Witness ==
  /\ lastOp = "commit"
  /\ cascadeState.cascadeCombo = 1
  /\ cascadeState.gameStatus = "playing"
  /\ cascadeState.score = 3 * ScorePerToken
  /\ RunCells(cascadeState.grid) = {}

(* C20: moves is always between 0 and INITIAL_MOVES, and it is at least 1
   whenever the status is playing and no processing is flagged. *)
C20_MovesInRange ==
  /\ cascadeState.moves \in 0 .. INITIAL_MOVES
  /\ (cascadeState.gameStatus = "playing" /\ ~cascadeState.isProcessing)
       => cascadeState.moves >= 1

(* The last move was spent and its cascade has committed: no move is left,
   nothing is pending, and the status is not playing. *)
C20_Witness ==
  /\ lastOp = "commit"
  /\ cascadeState.moves = 0
  /\ ~cascadeState.isProcessing
  /\ cascadeState.gameStatus = "gameOver"
  /\ InFlight = {}

(* C21: whenever the status is playing and no processing is flagged, the
   score is strictly below the target score. *)
C21_ScoreBelowTargetWhilePlaying ==
  (cascadeState.gameStatus = "playing" /\ ~cascadeState.isProcessing)
    => cascadeState.score < cascadeState.targetScore

====
